---- MODULE Spec2Model ----
(***************************************************************************)
(* Model of the UAV recovery project's data generators                     *)
(* (generate_field_reports_batch_1.py, generate_field_reports_batch_2.py,  *)
(* generate_historical_data.py) and of signal_propagation.py.              *)
(*                                                                         *)
(* Units.  Positions are cells of the DEM raster laid over the bounding    *)
(* box, <<lat, lon>> counted in raster steps from (LAT_MIN, LON_MIN).      *)
(* Lengths are whole metres, the two minimum distances are centimetres     *)
(* (1609.34 m = 160934 cm).  Decibel values are hundredths of a dB, so     *)
(* that k = 0.15 is the integer 15 per metre of blockage.  Times are       *)
(* seconds counted from 2025-08-21T00:00:00.                               *)
(*                                                                         *)
(* A Python value that may be a number, nan, inf or a string is the record *)
(* [tag, val]: tag "num" with the number in val, or tag "nan", "inf", or   *)
(* the string itself, with val 0.                                          *)
(***************************************************************************)
EXTENDS Integers, Sequences, FiniteSets, TLC

VARIABLES script, dem, num_points, pc, team_coords, team_callsigns, attempts,
          draws, time_increment, i, records, error, csv, call, probe

vars == <<script, dem, num_points, pc, team_coords, team_callsigns, attempts,
          draws, time_increment, i, records, error, csv, call, probe>>

-----------------------------------------------------------------------------
(* Bounds of the model *)

\* the raster has cells 0..GridLat x 0..GridLon
GridLat == 4
GridLon == 1
\* largest num_points a run is started with (the scripts ask for 200 or 400)
MaxPoints == 2
\* the attempt budget (the scripts allow 10000, 15000 or 20000)
max_attempts == 3
\* number of samples along the line of sight (the default of num is 100)
num == 3

-----------------------------------------------------------------------------
(* Python values *)

Num(v) == [tag |-> "num", val |-> v]
NaN == [tag |-> "nan", val |-> 0]
PosInf == [tag |-> "inf", val |-> 0]
Str(s) == [tag |-> s, val |-> 0]

IsNum(x) == x.tag = "num"

Max2(a, b) == IF a >= b THEN a ELSE b
Min2(a, b) == IF a <= b THEN a ELSE b
Abs(a) == IF a >= 0 THEN a ELSE -a

\* one dB in the model's unit
dB == 100

-----------------------------------------------------------------------------
(* Geometry: geopy's geodesic on the raster grid *)

Cells == (0 .. GridLat) \X (0 .. GridLon)

\* metres between neighbouring raster cells
CellM == 1000

RECURSIVE SqrtBetween(_, _, _)
SqrtBetween(n, lo, hi) ==
    IF lo >= hi THEN lo
    ELSE LET mid == (lo + hi + 1) \div 2
         IN  IF mid * mid <= n THEN SqrtBetween(n, mid, hi)
             ELSE SqrtBetween(n, lo, mid - 1)

Isqrt(n) == SqrtBetween(n, 0, Min2(n, 46340))

\* geodesic(p, q).meters, rounded down to a whole metre
geodesic(p, q) ==
    LET dlat == Abs(p[1] - q[1])
        dlon == Abs(p[2] - q[2])
    IN  Isqrt((dlat * dlat + dlon * dlon) * CellM * CellM)

-----------------------------------------------------------------------------
(* The DEM raster file data/sierra_dem.tif *)

\* ground elevation in metres: a ridge along lat = 1, rising ground from lat = 3
SierraElev(c) ==
    CASE c[1] = 1 /\ c[2] = 0 -> 2600
      [] c[1] = 1 /\ c[2] # 0 -> 2150
      [] c[1] = 2 -> 2000
      [] c[1] = 3 -> 3000
      [] c[1] >= 4 -> 3950
      [] OTHER -> 2000

\* the raster files a run may find at data/sierra_dem.tif: the DEM, the same
\* DEM with a block that cannot be read, and a DEM that does not reach the
\* southern edge of the bounding box
DemFiles == {"sierra", "corrupt", "small"}

\* the cells the raster covers
Extent(dem_path) == IF dem_path = "small" THEN {c \in Cells : c[1] >= 1} ELSE Cells

\* what src.sample yields for a point outside the raster: dataset.nodata or 0,
\* for a raster that sets no nodata value
NoData == 0

Elev(dem_path, c) == IF c \in Extent(dem_path) THEN SierraElev(c) ELSE NoData
Unreadable(dem_path) == IF dem_path = "corrupt" THEN {c \in Cells : c[1] = 3} ELSE {}

\* the outcome of a call: a value, or an exception
Ret(v) == [raised |-> FALSE, value |-> v]
Raise(e) == [raised |-> TRUE, value |-> e]

get_elevation(c, dem_path) ==
    IF c \in Unreadable(dem_path) THEN Raise("RasterioIOError")
    ELSE Ret(Elev(dem_path, c))

-----------------------------------------------------------------------------
(* signal_propagation.py *)

\* np.linspace(a, b, num)[j], j = 0 .. num-1, rounded to the nearest integer
linspace(a, b, j) ==
    (2 * (a * (num - 1) + (b - a) * j) + (num - 1)) \div (2 * (num - 1))

Samples == 0 .. (num - 1)

SetMax(S) == CHOOSE m \in S : \A x \in S : x <= m

\* lines 16-17: the raster cell under the j-th point of the path
LosCell(tx, rx, j) == <<linspace(tx[1], rx[1], j), linspace(tx[2], rx[2], j)>>
\* line 18: the height of the straight line at the j-th point
LosElev(tx_elev, rx_elev, j) == linspace(tx_elev, rx_elev, j)

\* the same with the blockages added up instead of the largest taken
line_of_sight_blockage_sum(tx, tx_elev, rx, rx_elev, dem_path) ==
    LET ex(j) == Max2(Elev(dem_path, LosCell(tx, rx, j)) - LosElev(tx_elev, rx_elev, j), 0)
        sum[j \in Samples] == ex(j) + IF j = 0 THEN 0 ELSE sum[j - 1]
    IN  IF \E j \in Samples : LosCell(tx, rx, j) \in Unreadable(dem_path)
        THEN Raise("RasterioIOError")
        ELSE Ret([los_clear |-> (sum[num - 1] = 0), blockage_m |-> sum[num - 1]])

line_of_sight_blockage(tx, tx_elev, rx, rx_elev, dem_path) ==
    IF \E j \in Samples : LosCell(tx, rx, j) \in Unreadable(dem_path)
    THEN Raise("RasterioIOError")
    ELSE LET terrain_elevs(j) == Elev(dem_path, LosCell(tx, rx, j))
             elevs(j) == LosElev(tx_elev, rx_elev, j)
             blockage == SetMax({Max2(terrain_elevs(j) - elevs(j), 0) : j \in Samples})
         IN  Ret([los_clear |-> (blockage = 0), blockage_m |-> blockage])

\* 10^(m/20) * 1000 for m = 0 .. 19
Pow10Table ==
    <<1000, 1123, 1259, 1413, 1585, 1779, 1996, 2239, 2512, 2819,
      3163, 3549, 3982, 4467, 5012, 5624, 6310, 7080, 7944, 8913>>

RECURSIVE Pow10(_)
Pow10(e) == IF e = 0 THEN 1 ELSE 10 * Pow10(e - 1)

\* 10^(m/20) * 1000, rounded up
Pow10x20(m) == Pow10Table[(m % 20) + 1] * Pow10(m \div 20)

RECURSIVE Log10x20From(_, _)
Log10x20From(d1000, m) ==
    IF Pow10x20(m + 1) <= d1000 THEN Log10x20From(d1000, m + 1) ELSE m

\* 20 * np.log10(distance) for distance >= 1 m, rounded down to a whole dB
PathLossDb(distance) == Log10x20From(distance * 1000, 0) * dB

\* the same with the blockage penalty added instead of subtracted
rss_locals_gain(distance, los, base_strength, k, noise_floor, Noise) ==
    LET LOS_Penalty == IF los.los_clear THEN 0 ELSE k * los.blockage_m
        raw == IF distance = 0 THEN PosInf
               ELSE Num(base_strength - PathLossDb(distance) + LOS_Penalty + Noise)
        snr == IF IsNum(raw) THEN Num(raw.val - noise_floor) ELSE raw
    IN  [distance |-> distance, los_clear |-> los.los_clear,
         blockage_m |-> los.blockage_m, LOS_Penalty |-> LOS_Penalty,
         Noise |-> Noise, raw |-> raw, snr |-> snr]

\* the local variables of compute_rss after line 36, given the LOS result
rss_locals(distance, los, base_strength, k, noise_floor, Noise) ==
    LET LOS_Penalty == IF los.los_clear THEN 0 ELSE -k * los.blockage_m
        \* np.log10(0) is -inf, so line 35 gives +inf for distance 0
        raw == IF distance = 0 THEN PosInf
               ELSE Num(base_strength - PathLossDb(distance) + LOS_Penalty + Noise)
        snr == IF IsNum(raw) THEN Num(raw.val - noise_floor) ELSE raw
    IN  [distance |-> distance, los_clear |-> los.los_clear,
         blockage_m |-> los.blockage_m, LOS_Penalty |-> LOS_Penalty,
         Noise |-> Noise, raw |-> raw, snr |-> snr]

\* x < 0 for a Python float
FloatNegative(x) == IsNum(x) /\ x.val < 0

\* the same without the floor check
rss_result_unchecked(loc) ==
    [signal_strength |-> loc.raw, blockage_m |-> loc.blockage_m, snr |-> loc.snr]

\* lines 37-39: the floor check and the returned triple
rss_result(loc) ==
    [signal_strength |-> IF FloatNegative(loc.snr) THEN NaN ELSE loc.raw,
     blockage_m |-> loc.blockage_m,
     snr |-> loc.snr]

compute_rss(tx, tx_elev, rx, rx_elev, dem_path, base_strength, k, noise_floor, Noise) ==
    LET los == line_of_sight_blockage(tx, tx_elev, rx, rx_elev, dem_path)
    IN  IF los.raised THEN los
        ELSE Ret(rss_result(rss_locals(geodesic(tx, rx), los.value,
                                       base_strength, k, noise_floor, Noise)))

\* what a call of compute_rss did: its arguments, the noise it drew, the
\* line-of-sight result, its local variables and what it returned
NoLos == [los_clear |-> TRUE, blockage_m |-> 0]

rss_call(tx, tx_elev, rx, rx_elev, dem_path, base_strength, k, noise_floor, Noise) ==
    LET los == line_of_sight_blockage(tx, tx_elev, rx, rx_elev, dem_path)
        lv == IF los.raised THEN NoLos ELSE los.value
        loc == rss_locals(geodesic(tx, rx), lv, base_strength, k, noise_floor, Noise)
        ret == compute_rss(tx, tx_elev, rx, rx_elev, dem_path,
                           base_strength, k, noise_floor, Noise)
    IN  [made |-> TRUE, tx |-> tx, tx_elev |-> tx_elev, rx |-> rx, rx_elev |-> rx_elev,
         dem_path |-> dem_path, base_strength |-> base_strength, k |-> k,
         noise_floor |-> noise_floor, raised |-> ret.raised, locals |-> loc,
         ret |-> IF ret.raised THEN rss_result(loc) ELSE ret.value]

\* a call that is about to be made: its arguments only
rss_args(tx, tx_elev, rx, rx_elev, dem_path, base_strength, k, noise_floor) ==
    [made |-> FALSE, tx |-> tx, tx_elev |-> tx_elev, rx |-> rx, rx_elev |-> rx_elev,
     dem_path |-> dem_path, base_strength |-> base_strength, k |-> k,
     noise_floor |-> noise_floor, raised |-> FALSE,
     locals |-> rss_locals(1, NoLos, 0, 0, 0, 0),
     ret |-> rss_result(rss_locals(1, NoLos, 0, 0, 0, 0))]

NoCall == rss_args(<<0, 0>>, 0, <<0, 0>>, 0, "sierra", 0, 0, 0)

\* np.random.normal(0, 2), in hundredths of a dB
NoiseDraws == {-3 * dB, 0}

-----------------------------------------------------------------------------
(* The generator scripts *)

Scripts == {"batch_1", "batch_2", "historical"}

\* beacon_lat, beacon_lon as a raster cell
Beacon(s) == IF s = "historical" THEN <<2, 1>> ELSE <<2, 0>>

\* the cells of the bounding box LAT_MIN..LAT_MAX x LON_MIN..LON_MAX; batch 2
\* searches a box of LAT_SPREAD around the beacon
Box(s) ==
    IF s = "batch_2" THEN {c \in Cells : Abs(c[1] - Beacon(s)[1]) <= 1}
    ELSE Cells

\* min_dist_to_beacon_m, in centimetres
min_dist_to_beacon_cm(s) ==
    CASE s = "batch_1" -> 160934
      [] s = "batch_2" -> 40000
      [] OTHER -> 80000

\* min_dist_between_teams_m, in centimetres
min_dist_between_teams_cm(s) ==
    CASE s = "batch_1" -> 201168
      [] OTHER -> 50000

\* the callsign prefix
Prefix(s) == IF s = "batch_2" THEN "GRID" ELSE "TEAM"

\* str(n): the decimal digits of n >= 0
RECURSIVE Digits(_)
Digits(n) == IF n < 10 THEN <<n>> ELSE Append(Digits(n \div 10), n % 10)

\* str.zfill(3)
RECURSIVE zfill3(_)
zfill3(d) == IF Len(d) >= 3 THEN d ELSE zfill3(<<0>> \o d)

\* f"TEAM{str(n).zfill(3)}"
Callsign(s, n) == <<Prefix(s)>> \o zfill3(Digits(n))

\* one report looked at on its own: the time of the report, what the random
\* sources gave to the error section, the values of the four fields before the
\* error section, and their values after it
NoRnd ==
    [storm_battery |-> 0, u1 |-> 99, typo |-> 1, u2 |-> 99, u3 |-> 99,
     token |-> 1, u4 |-> 99]

NoProbe ==
    [done |-> FALSE, current_time |-> 0, rnd |-> NoRnd,
     clean |-> [team_callsign |-> <<>>, signal_strength |-> NaN,
                wind_direction_deg |-> NaN, battery_level_percent |-> NaN],
     out |-> [team_callsign |-> <<>>, signal_strength |-> NaN,
              wind_direction_deg |-> NaN, battery_level_percent |-> NaN]]

\* the exceptions a run can end with
NoError == [type |-> "none", teams |-> 0, after |-> 0]
\* RuntimeError(f"Could not place {num_points} teams ... after {max_attempts} attempts.")
PlacementError ==
    [type |-> "RuntimeError", teams |-> num_points, after |-> max_attempts]
RasterError == [type |-> "RasterioIOError", teams |-> 0, after |-> 0]

NoCsv == [written |-> FALSE, rows |-> <<>>]

Init ==
    /\ script \in Scripts
    /\ dem \in DemFiles
    /\ num_points \in 0 .. MaxPoints
    /\ pc = "sampling"
    /\ team_coords = <<>>
    /\ team_callsigns = <<>>
    /\ attempts = 0
    /\ draws = 0
    /\ time_increment = 0
    /\ i = 0
    /\ records = <<>>
    /\ error = NoError
    /\ csv = NoCsv
    /\ call = NoCall
    /\ probe = NoProbe

\* the while condition without the attempt budget
SamplingUnbounded ==
    /\ pc = "sampling"
    /\ Len(team_coords) < num_points

\* the while condition
Sampling ==
    /\ pc = "sampling"
    /\ Len(team_coords) < num_points
    /\ attempts < max_attempts

\* the sampler without the beacon distance test
TooCloseToBeaconSkipped(s, c) == FALSE

\* dist_to_beacon < min_dist_to_beacon_m
TooCloseToBeacon(s, c) == geodesic(c, Beacon(s)) * 100 < min_dist_to_beacon_cm(s)

\* the for loop over team_coords
TooCloseToTeam(s, c, coords) ==
    \E j \in 1 .. Len(coords) :
        geodesic(c, coords[j]) * 100 < min_dist_between_teams_cm(s)

\* one pass of the while loop that ends in the first continue
DrawRejectBeacon ==
    /\ Sampling
    /\ \E c \in Box(script) :
          /\ TooCloseToBeacon(script, c)
          /\ attempts' = attempts + 1
          /\ draws' = draws + 1
    /\ UNCHANGED <<script, dem, num_points, pc, team_coords, team_callsigns,
                   time_increment, i, records, error, csv, call, probe>>

\* one pass that ends in the second continue
DrawRejectTeam ==
    /\ Sampling
    /\ \E c \in Box(script) :
          /\ ~TooCloseToBeacon(script, c)
          /\ TooCloseToTeam(script, c, team_coords)
          /\ attempts' = attempts + 1
          /\ draws' = draws + 1
    /\ UNCHANGED <<script, dem, num_points, pc, team_coords, team_callsigns,
                   time_increment, i, records, error, csv, call, probe>>

\* a pass that accepts the candidate without looking at the other teams
DrawAcceptUnchecked ==
    /\ Sampling
    /\ \E c \in Box(script) :
          /\ ~TooCloseToBeacon(script, c)
          /\ team_coords' = Append(team_coords, c)
          /\ team_callsigns' =
                 Append(team_callsigns, Callsign(script, Len(team_coords) + 1))
          /\ attempts' = attempts + 1
          /\ draws' = draws + 1
    /\ UNCHANGED <<script, dem, num_points, pc, time_increment, i, records,
                   error, csv, call, probe>>

\* a pass that accepts the candidate and numbers its callsign by the attempt
DrawAcceptNumbersAttempts ==
    /\ Sampling
    /\ \E c \in Box(script) :
          /\ ~TooCloseToBeacon(script, c)
          /\ ~TooCloseToTeam(script, c, team_coords)
          /\ team_coords' = Append(team_coords, c)
          /\ team_callsigns' = Append(team_callsigns, Callsign(script, attempts + 1))
          /\ attempts' = attempts + 1
          /\ draws' = draws + 1
    /\ UNCHANGED <<script, dem, num_points, pc, time_increment, i, records,
                   error, csv, call, probe>>

\* one pass that accepts the candidate
DrawAccept ==
    /\ Sampling
    /\ \E c \in Box(script) :
          /\ ~TooCloseToBeacon(script, c)
          /\ ~TooCloseToTeam(script, c, team_coords)
          /\ team_coords' = Append(team_coords, c)
          /\ team_callsigns' =
                 Append(team_callsigns, Callsign(script, Len(team_coords) + 1))
          /\ attempts' = attempts + 1
          /\ draws' = draws + 1
    /\ UNCHANGED <<script, dem, num_points, pc, time_increment, i, records,
                   error, csv, call, probe>>

\* the loop is left short of teams and the script goes on with those it has
PlacementIgnored ==
    /\ pc = "sampling"
    /\ ~(Len(team_coords) < num_points /\ attempts < max_attempts)
    /\ Len(team_coords) < num_points
    /\ pc' = "records"
    /\ UNCHANGED <<script, dem, num_points, team_coords, team_callsigns, attempts,
                   draws, time_increment, i, records, error, csv, call, probe>>

\* the raise after the loop
PlacementFails ==
    /\ pc = "sampling"
    /\ ~(Len(team_coords) < num_points /\ attempts < max_attempts)
    /\ Len(team_coords) < num_points
    /\ pc' = "failed"
    /\ error' = PlacementError
    /\ UNCHANGED <<script, dem, num_points, team_coords, team_callsigns, attempts,
                   draws, time_increment, i, records, csv, call, probe>>

\* metres above ground level the UAVs fly at
AGL == 120
\* the operational ceiling in metres
Ceiling == 4000

\* base_strength = -30, noise_floor = -120, k = 0.15 or 0.2
BaseStrength == -30 * dB
NoiseFloor == -120 * dB
K(s) == IF s = "historical" THEN 20 ELSE 15

\* num_points of batch 1: the reports batch 2 is appended to
Batch1Reports == 200

\* the report_id of the first report
Offset(s) == IF s = "batch_2" THEN 201 ELSE 1

\* every batch gives all its reports the first report_id
ReportIdSame(s, n) == Offset(s)

\* 'report_id': i + 1, i + 201
ReportId(s, n) == Offset(s) + n

\* start_time, in seconds from 2025-08-21T00:00:00
StartTime(s) == IF s = "batch_2" THEN 86400 + 6 * 3600 ELSE 6 * 3600

\* the solar storm of batch 1: 08:00:00 to 09:30:00
StormStart == 28800
StormEnd == 34200

\* the storm test with the end of the window left out
InStormHalfOpen(t) == StormStart <= t /\ t < StormEnd

InStorm(t) == StormStart <= t /\ t <= StormEnd

\* datetime.isoformat(): <<day of August 2025, hour, minute, second>>
isoformat(t) ==
    <<21 + t \div 86400, (t % 86400) \div 3600, (t % 3600) \div 60, t % 60>>

\* the same without the index of the report
CurrentTimeNoIndex(s, n, step) == StartTime(s) + step

\* current_time = start_time + i * time_increment
CurrentTime(s, n, step) == StartTime(s) + n * step

\* random.randint(1, 10) or random.randint(1, 5) minutes, as seconds: the
\* smallest and the largest step
TimeIncrementDraws(s) ==
    IF s = "batch_2" THEN {60 * m : m \in {1, 5}} ELSE {60 * m : m \in {1, 10}}

\* np.random.uniform(0, 360), np.random.normal(25, 5), np.random.uniform(20, 100)
WindDraws == {45}
TempDraws == {25}
BatteryDraws == {60}
\* np.random.randint(150, 300)
StormBatteryDraws == {150, 299}
\* random.random(), in hundredths
RandomDraws == {3, 7, 50}
Typos == <<"Alpha", "alfa", "bravo">>
Tokens == <<"?", "N/A", "">>

\* the element random.choice picks from a list of three: any of them when one
\* report is looked at on its own, the first one in a whole run
ChoiceDraws == IF pc = "inject" THEN 1 .. 3 ELSE {1}

\* what the random sources give to one pass of the record loop after compute_rss
RandomSource ==
    [storm_battery : StormBatteryDraws, u1 : RandomDraws, typo : ChoiceDraws,
     u2 : RandomDraws, u3 : RandomDraws, token : ChoiceDraws, u4 : RandomDraws]

\* the general messiness with one random.random() deciding all four fields
MessinessOneDraw(f, rnd) ==
    [team_callsign |-> IF rnd.u1 < 10 THEN <<Typos[rnd.typo]>> ELSE f.team_callsign,
     signal_strength |-> IF rnd.u1 < 5 THEN NaN ELSE f.signal_strength,
     wind_direction_deg |->
         IF rnd.u1 < 5 THEN Str(Tokens[rnd.token]) ELSE f.wind_direction_deg,
     battery_level_percent |-> IF rnd.u1 < 5 THEN NaN ELSE f.battery_level_percent]

\* lines 105-112 of batch 1, 100-107 of batch 2: the general messiness
Messiness(f, rnd) ==
    [team_callsign |-> IF rnd.u1 < 10 THEN <<Typos[rnd.typo]>> ELSE f.team_callsign,
     signal_strength |-> IF rnd.u2 < 5 THEN NaN ELSE f.signal_strength,
     wind_direction_deg |->
         IF rnd.u3 < 5 THEN Str(Tokens[rnd.token]) ELSE f.wind_direction_deg,
     battery_level_percent |-> IF rnd.u4 < 5 THEN NaN ELSE f.battery_level_percent]

\* lines 100-102 of batch 1: the solar storm corruption
StormCorruption(f, rnd) ==
    [team_callsign |-> f.team_callsign,
     signal_strength |-> Str("ERR-&^%"),
     wind_direction_deg |-> Num(-999),
     battery_level_percent |-> Num(rnd.storm_battery)]

\* the storm corruption followed by the general messiness
InjectBoth(s, current_time, f, rnd) ==
    CASE s = "batch_1" ->
             IF InStorm(current_time) THEN Messiness(StormCorruption(f, rnd), rnd)
             ELSE Messiness(f, rnd)
      [] s = "batch_2" -> Messiness(f, rnd)
      [] OTHER -> f

\* the error section of one pass of the record loop
Inject(s, current_time, f, rnd) ==
    CASE s = "batch_1" ->
             IF InStorm(current_time) THEN StormCorruption(f, rnd)
             ELSE Messiness(f, rnd)
      [] s = "batch_2" -> Messiness(f, rnd)
      [] OTHER -> f

\* the dict appended to records
Record(s, n, team, team_elev, current_time, temp, f) ==
    IF s = "historical"
    THEN [report_id |-> ReportId(s, n), team_callsign |-> f.team_callsign,
          team_lat |-> team[1], team_lon |-> team[2],
          beacon_lat |-> Beacon(s)[1], beacon_lon |-> Beacon(s)[2],
          signal_strength |-> f.signal_strength]
    ELSE [report_id |-> ReportId(s, n), timestamp |-> isoformat(current_time),
          team_callsign |-> f.team_callsign,
          latitude |-> team[1], longitude |-> team[2], elevation_m |-> team_elev,
          wind_direction_deg |-> f.wind_direction_deg,
          ambient_temp_c |-> Num(temp),
          battery_level_percent |-> f.battery_level_percent,
          signal_strength |-> f.signal_strength]

\* the loop is left with all teams placed: records = [], start_time, time_increment
PlacementDone ==
    /\ pc = "sampling"
    /\ ~(Len(team_coords) < num_points /\ attempts < max_attempts)
    /\ ~(Len(team_coords) < num_points)
    /\ pc' = "records"
    /\ records' = <<>>
    /\ i' = 0
    /\ IF script = "historical" THEN time_increment' = time_increment
       ELSE time_increment' \in TimeIncrementDraws(script)
    /\ UNCHANGED <<script, dem, num_points, team_coords, team_callsigns, attempts,
                   draws, error, csv, call, probe>>

InRecordLoop == pc = "records" /\ i < Len(team_coords)

\* the same without the operational ceiling
TeamElevNoCeiling(ground) == ground + AGL

\* team_elev of the pass: ground elevation plus AGL, capped at the ceiling
TeamElev(ground) == Min2(ground + AGL, Ceiling)

\* one pass of the record loop
GenRecord ==
    /\ InRecordLoop
    /\ LET team == team_coords[i + 1]
           ground == get_elevation(team, dem)
           beacon_elev == get_elevation(Beacon(script), dem)
       IN  /\ ~ground.raised
           /\ ~beacon_elev.raised
           /\ \E Noise \in NoiseDraws, wind \in WindDraws, temp \in TempDraws,
                 battery \in BatteryDraws :
                 \E c \in {rss_call(Beacon(script), beacon_elev.value, team,
                                    TeamElev(ground.value), dem, BaseStrength,
                                    K(script), NoiseFloor, Noise)} :
                     LET current_time == CurrentTime(script, i, time_increment)
                         f == [team_callsign |-> team_callsigns[i + 1],
                               signal_strength |-> c.ret.signal_strength,
                               wind_direction_deg |-> Num(wind),
                               battery_level_percent |-> Num(battery)]
                     IN  /\ ~c.raised
                         /\ call' = c
                         /\ \E g \in {Inject(script, current_time, f, rnd) :
                                           rnd \in RandomSource} :
                                records' =
                                    Append(records,
                                           Record(script, i, team, c.rx_elev,
                                                  current_time, temp, g))
           /\ i' = i + 1
    /\ UNCHANGED <<script, dem, num_points, pc, team_coords, team_callsigns, attempts,
                   draws, time_increment, error, csv, probe>>

\* the same pass inside a try whose handler writes what was built so far
RecordRaisesAndExports ==
    /\ InRecordLoop
    /\ LET ground == get_elevation(team_coords[i + 1], dem)
           beacon_elev == get_elevation(Beacon(script), dem)
       IN  IF ground.raised \/ beacon_elev.raised THEN TRUE
           ELSE line_of_sight_blockage(Beacon(script), beacon_elev.value,
                                       team_coords[i + 1], TeamElev(ground.value),
                                       dem).raised
    /\ pc' = "failed"
    /\ error' = RasterError
    /\ csv' = [written |-> TRUE, rows |-> records]
    /\ UNCHANGED <<script, dem, num_points, team_coords, team_callsigns, attempts,
                   draws, time_increment, i, records, call, probe>>

\* a pass of the record loop in which the raster cannot be read
RecordRaises ==
    /\ InRecordLoop
    /\ LET team == team_coords[i + 1]
           ground == get_elevation(team, dem)
           beacon_elev == get_elevation(Beacon(script), dem)
       IN  IF ground.raised \/ beacon_elev.raised
           THEN call' = call
           ELSE \E Noise \in NoiseDraws :
                    LET c == rss_call(Beacon(script), beacon_elev.value, team,
                                      TeamElev(ground.value), dem, BaseStrength,
                                      K(script), NoiseFloor, Noise)
                    IN  /\ c.raised
                        /\ call' = c
    /\ pc' = "failed"
    /\ error' = RasterError
    /\ UNCHANGED <<script, dem, num_points, team_coords, team_callsigns, attempts,
                   draws, time_increment, i, records, csv, probe>>

\* DataFrame.to_csv writes nan as an empty field
CsvField(x) == IF x = NaN THEN Str("") ELSE x

CsvRow(s, r) ==
    IF s = "historical"
    THEN [r EXCEPT !.signal_strength = CsvField(r.signal_strength)]
    ELSE [r EXCEPT !.signal_strength = CsvField(r.signal_strength),
                   !.battery_level_percent = CsvField(r.battery_level_percent)]

\* the loop is over: pd.DataFrame(records).to_csv(output_path)
ExportCsv ==
    /\ pc = "records"
    /\ ~(i < Len(team_coords))
    /\ csv' = [written |-> TRUE, rows |-> [j \in 1 .. Len(records) |-> CsvRow(script, records[j])]]
    /\ pc' = "done"
    /\ UNCHANGED <<script, dem, num_points, team_coords, team_callsigns, attempts,
                   draws, time_increment, i, records, error, call, probe>>

Next ==
    \/ DrawRejectBeacon
    \/ DrawRejectTeam
    \/ DrawAccept
    \/ PlacementFails
    \/ PlacementDone
    \/ GenRecord
    \/ RecordRaises
    \/ ExportCsv

Spec == Init /\ [][Next]_vars

-----------------------------------------------------------------------------
(* compute_rss on its own: any caller, any arguments *)

ProbeElevs == {2000, 2700}
ProbeBase == {0, -30 * dB}
\* k: the default 5, the scripts' 0.15 and 0.2, and a negative coefficient
ProbeK == {5 * dB, 15, -15}
ProbeFloor == {-120 * dB}

Idle ==
    /\ dem = "sierra"
    /\ num_points = 0
    /\ team_coords = <<>>
    /\ team_callsigns = <<>>
    /\ attempts = 0
    /\ draws = 0
    /\ time_increment = 0
    /\ i = 0
    /\ records = <<>>
    /\ error = NoError
    /\ csv = NoCsv

InitRss ==
    /\ Idle
    /\ script = "none"
    /\ pc = "rss"
    /\ probe = NoProbe
    /\ \E tx \in Cells, rx \in Cells, tx_elev \in ProbeElevs, rx_elev \in ProbeElevs,
          d \in DemFiles, base_strength \in ProbeBase, k \in ProbeK,
          noise_floor \in ProbeFloor :
          call = rss_args(tx, tx_elev, rx, rx_elev, d, base_strength, k, noise_floor)

CallComputeRss ==
    /\ pc = "rss"
    /\ \E Noise \in NoiseDraws :
          call' = rss_call(call.tx, call.tx_elev, call.rx, call.rx_elev,
                           call.dem_path, call.base_strength, call.k,
                           call.noise_floor, Noise)
    /\ pc' = "returned"
    /\ UNCHANGED <<script, dem, num_points, team_coords, team_callsigns, attempts,
                   draws, time_increment, i, records, error, csv, probe>>

NextRss == CallComputeRss

SpecRss == InitRss /\ [][NextRss]_vars

-----------------------------------------------------------------------------
(* The error section of the record loop on its own: any report time *)

ProbeTimes ==
    {StartTime("batch_1"), StormStart - 60, StormStart - 1, StormStart,
     StormStart + 1800, StormEnd, StormEnd + 1, StormEnd + 60,
     StartTime("batch_2") + 9000}

CleanFields ==
    [team_callsign : {Callsign(script, 1), Callsign(script, 25)},
     signal_strength : {Num(-95 * dB), NaN},
     wind_direction_deg : {Num(45), Num(300)},
     battery_level_percent : {Num(60)}]

InitFault ==
    /\ Idle
    /\ script \in Scripts
    /\ pc = "inject"
    /\ call = NoCall
    /\ \E t \in ProbeTimes, f \in CleanFields :
          probe = [done |-> FALSE, current_time |-> t, rnd |-> NoRnd,
                   clean |-> f, out |-> f]

InjectFaults ==
    /\ pc = "inject"
    /\ \E rnd \in RandomSource :
          probe' = [probe EXCEPT !.done = TRUE,
                                 !.rnd = rnd,
                                 !.out = Inject(script, probe.current_time,
                                                probe.clean, rnd)]
    /\ pc' = "injected"
    /\ UNCHANGED <<script, dem, num_points, team_coords, team_callsigns, attempts,
                   draws, time_increment, i, records, error, csv, call>>

NextFault == InjectFaults

SpecFault == InitFault /\ [][NextFault]_vars

-----------------------------------------------------------------------------
(* Claims about signal_propagation.py *)

Returned == call.made /\ ~call.raised

\* C3: compute_rss returns nan as signal_strength exactly when snr < 0 and the
\* raw signal otherwise; the returned snr is the raw signal minus noise_floor
\* in both branches, and the blockage of the line of sight is returned as is.
C3_FloorCheck ==
    Returned =>
        LET raw == call.locals.raw
            snr == IF IsNum(raw) THEN Num(raw.val - call.noise_floor) ELSE raw
            los == line_of_sight_blockage(call.tx, call.tx_elev, call.rx,
                                          call.rx_elev, call.dem_path)
        IN  /\ call.ret.snr = snr
            /\ (call.ret.signal_strength = NaN) <=> (IsNum(snr) /\ snr.val < 0)
            /\ ~(IsNum(snr) /\ snr.val < 0) => call.ret.signal_strength = raw
            /\ call.ret.blockage_m = los.value.blockage_m

\* a call whose signal fell below the noise floor on a blocked path
C3_Witness ==
    /\ Returned
    /\ call.ret.signal_strength = NaN
    /\ call.ret.snr.val < 0
    /\ call.ret.blockage_m > 0

C10_RawSignal ==
    (Returned /\ call.locals.distance > 0) =>
        LET b == call.locals.blockage_m
            penalty == IF call.locals.los_clear THEN 0 ELSE -(call.k * b)
            unblocked == call.base_strength - PathLossDb(call.locals.distance)
                         + call.locals.Noise
        IN  /\ call.locals.LOS_Penalty = penalty
            /\ call.locals.raw = Num(unblocked + penalty)
            /\ call.k >= 0 => call.locals.raw.val <= unblocked

\* a blocked path, a positive k and zero noise
C10_Witness ==
    /\ Returned
    /\ call.locals.distance > 0
    /\ ~call.locals.los_clear
    /\ call.k > 0
    /\ call.locals.Noise = 0
    /\ call.locals.raw.val < call.base_strength - PathLossDb(call.locals.distance)

-----------------------------------------------------------------------------
(* Claims about the error section *)

Stormy(t) == 8 * 3600 <= t /\ t <= 9 * 3600 + 30 * 60

\* C4: a report of batch 1 timed inside the storm window has the marker
\* "ERR-&^%" as signal_strength, -999 as wind_direction_deg and a battery level
\* drawn from 150 .. 299, and none of the four general corruptions: the
\* callsign is the clean one and no field is nan or a placeholder token.
C4_StormOnly ==
    (probe.done /\ script = "batch_1" /\ Stormy(probe.current_time)) =>
        /\ probe.out.signal_strength = Str("ERR-&^%")
        /\ probe.out.wind_direction_deg = Num(-999)
        /\ probe.out.battery_level_percent.tag = "num"
        /\ probe.out.battery_level_percent.val \in 150 .. 299
        /\ probe.out.team_callsign = probe.clean.team_callsign

\* a report half an hour into the storm
C4_Witness ==
    /\ probe.done
    /\ script = "batch_1"
    /\ probe.current_time = StormStart + 1800
    /\ probe.out.signal_strength = Str("ERR-&^%")
    /\ probe.out.battery_level_percent = Num(299)

StormMarked(f) ==
    \/ f.signal_strength = Str("ERR-&^%")
    \/ f.wind_direction_deg = Num(-999)
    \/ (f.battery_level_percent.tag = "num" /\ f.battery_level_percent.val >= 150)

\* C5: the window is closed: a report timed 08:00:00 or 09:30:00 gets the
\* storm corruption, a report timed 07:59:59 or 09:30:01 does not.
C5_ClosedWindow ==
    (probe.done /\ script = "batch_1") =>
        /\ probe.current_time \in {8 * 3600, 9 * 3600 + 30 * 60} =>
               /\ probe.out.signal_strength = Str("ERR-&^%")
               /\ probe.out.wind_direction_deg = Num(-999)
               /\ probe.out.battery_level_percent.val >= 150
        /\ probe.current_time \in {8 * 3600 - 1, 9 * 3600 + 30 * 60 + 1} =>
               ~StormMarked(probe.out)

\* a report timed at the very end of the window
C5_Witness ==
    /\ probe.done
    /\ script = "batch_1"
    /\ probe.current_time = StormEnd
    /\ probe.out.signal_strength = Str("ERR-&^%")
    /\ probe.out.wind_direction_deg = Num(-999)

-----------------------------------------------------------------------------
(* Claims about a whole run *)

Placed == 1 .. Len(team_coords)

\* C1: in every state of the sampling loop and after it, every accepted
\* position is at least min_dist_to_beacon_m from the beacon and every two
\* accepted positions are at least min_dist_between_teams_m apart.
C1_Spacing ==
    /\ \A j \in Placed :
          geodesic(team_coords[j], Beacon(script)) * 100 >= min_dist_to_beacon_cm(script)
    /\ \A j, k \in Placed :
          j # k => geodesic(team_coords[j], team_coords[k]) * 100
                       >= min_dist_between_teams_cm(script)

\* two teams placed after a candidate was turned down
C1_Witness ==
    /\ Len(team_coords) = 2
    /\ attempts = 3
    /\ pc = "records"

\* C2 as stated: the error of a failed placement carries the number of
\* points that were placed.
C2_CarriesPlaced ==
    (pc = "failed" /\ error.type = "RuntimeError") => error.teams = Len(team_coords)

\* C2, amended: when the loop ends with fewer than num_points teams, the
\* attempt budget is used up and the run fails with a RuntimeError whose
\* message names the requested number num_points and max_attempts.
C2_PlacementError ==
    (pc # "sampling" /\ Len(team_coords) < num_points) =>
        /\ pc = "failed"
        /\ attempts = max_attempts
        /\ error = [type |-> "RuntimeError", teams |-> num_points,
                    after |-> max_attempts]

\* a failed placement with one team placed out of two
C2_Witness ==
    /\ pc = "failed"
    /\ error.type = "RuntimeError"
    /\ Len(team_coords) = 1
    /\ num_points = 2

\* C6: the report_id values of a batch start at the batch's offset and grow
\* by one per report, so they are distinct and strictly increasing; a finished
\* batch has exactly one report per placed team; the ids of batch 1 (at most
\* 200 reports from 1) and of batch 2 (from 201) never meet.
C6_ReportIds ==
    /\ \A j \in 1 .. Len(records) :
          /\ j = 1 => records[j].report_id = IF script = "batch_2" THEN 201 ELSE 1
          /\ j > 1 => records[j].report_id = records[j - 1].report_id + 1
    /\ \A j, k \in 1 .. Len(records) :
          j < k => records[j].report_id < records[k].report_id
    /\ pc = "done" =>
          /\ Len(records) = Len(team_coords)
          /\ Len(csv.rows) = Len(team_coords)
          /\ \A j \in 1 .. Len(csv.rows) : csv.rows[j].report_id = records[j].report_id
    /\ \A j \in 1 .. Len(records) :
          /\ script = "batch_1" => records[j].report_id \in 1 .. Batch1Reports
          /\ script = "batch_2" => records[j].report_id > Batch1Reports

\* a finished batch 2 with two reports
C6_Witness ==
    /\ pc = "done"
    /\ script = "batch_2"
    /\ Len(csv.rows) = 2
    /\ csv.rows[2].report_id = 202

\* C7: a candidate is drawn only while fewer than num_points teams are placed
\* and fewer than max_attempts draws were made, every draw adds one to
\* attempts, so at most max_attempts draws are made; with num_points = 0 no
\* draw is made and no team is placed.
C7_AttemptBudget ==
    /\ [](/\ draws = attempts
          /\ draws <= max_attempts
          /\ num_points = 0 => (draws = 0 /\ team_coords = <<>>))
    /\ [][draws' # draws =>
             /\ pc = "sampling"
             /\ Len(team_coords) < num_points
             /\ attempts < max_attempts
             /\ draws' = draws + 1
             /\ attempts' = attempts + 1]_vars

\* the budget is used up with a team still missing
C7_Witness ==
    /\ pc = "sampling"
    /\ draws = max_attempts
    /\ Len(team_coords) < num_points

\* C8 as stated: a run fails before any record is built or written.
C8_NothingBuilt ==
    pc = "failed" => (records = <<>> /\ ~csv.written)

\* C8, amended: a failed run has written nothing; a failed placement comes
\* before any record is built, while a raster that cannot be read fails the
\* run in the record loop, where earlier records may already be built.
C8_NothingWritten ==
    /\ pc = "failed" => ~csv.written
    /\ (pc = "failed" /\ error.type = "RuntimeError") => records = <<>>
    /\ csv.written => (pc = "done" /\ Len(csv.rows) = num_points)

\* the raster fails at the second team: one record is built, none is written
C8_Witness ==
    /\ pc = "failed"
    /\ error.type = "RasterioIOError"
    /\ Len(records) = 1
    /\ ~csv.written

\* datetime.fromisoformat: the seconds from 2025-08-21T00:00:00 of a timestamp
Seconds(ts) == (ts[1] - 21) * 86400 + ts[2] * 3600 + ts[3] * 60 + ts[4]

\* C11: the step between timestamps is drawn once, before the record loop,
\* and never drawn again; the report with index n (from 0) is stamped
\* start_time + n * step, so the timestamps never decrease in output order and
\* two reports in a row always differ by that one step.
C11_Timestamps ==
    /\ [](script \in {"batch_1", "batch_2"} =>
            \A j \in 1 .. Len(records) :
                /\ Seconds(records[j].timestamp)
                       = StartTime(script) + (j - 1) * time_increment
                /\ j > 1 =>
                       /\ Seconds(records[j].timestamp)
                              >= Seconds(records[j - 1].timestamp)
                       /\ Seconds(records[j].timestamp)
                              - Seconds(records[j - 1].timestamp) = time_increment)
    /\ [][time_increment' # time_increment =>
             (pc = "sampling" /\ pc' = "records" /\ records' = <<>>)]_vars

\* a finished batch 1 with two reports ten minutes apart
C11_Witness ==
    /\ pc = "done"
    /\ script = "batch_1"
    /\ time_increment = 600
    /\ Len(records) = 2
    /\ records[1].timestamp = <<21, 6, 0, 0>>
    /\ records[2].timestamp = <<21, 6, 10, 0>>

\* C12: the flight elevation passed to compute_rss, and the one stored in the
\* record, is min(ground elevation + 120, 4000): it is never above 4000 m.
C12_Ceiling ==
    /\ call.made =>
          /\ call.rx_elev = Min2(Elev(dem, call.rx) + 120, 4000)
          /\ call.rx_elev <= 4000
    /\ script \in {"batch_1", "batch_2"} =>
          \A j \in 1 .. Len(records) :
              /\ records[j].elevation_m
                     = Min2(Elev(dem, <<records[j].latitude, records[j].longitude>>)
                            + 120, 4000)
              /\ records[j].elevation_m <= 4000
    /\ (script \in {"batch_1", "batch_2"} /\ call.made /\ ~call.raised) =>
          /\ Len(records) = i
          /\ i >= 1
          /\ records[i].elevation_m = call.rx_elev
          /\ <<records[i].latitude, records[i].longitude>> = call.rx

\* a team over ground 3950 m high, where 120 m above ground is over the ceiling
C12_Witness ==
    /\ script = "batch_1"
    /\ call.made
    /\ ~call.raised
    /\ Len(records) >= 1
    /\ Elev(dem, call.rx) = 3950
    /\ call.rx_elev = 4000
    /\ records[Len(records)].elevation_m = 4000

\* what compute_rss returns as signal_strength for a signal one hundredth of
\* a dB under the noise floor
SnrInvalid ==
    rss_result(rss_locals(1, NoLos, NoiseFloor - 1, 0, NoiseFloor, 0)).signal_strength

\* the error section replaced a valid signal_strength by its null
Nulled ==
    /\ probe.done
    /\ script \in {"batch_1", "batch_2"}
    /\ IsNum(probe.clean.signal_strength)
    /\ ~IsNum(probe.out.signal_strength)
    /\ probe.out.signal_strength # Str("ERR-&^%")

\* C13: a signal_strength that the error section nulled is stored as a value
\* other than the one stored for a signal under the noise floor.
C13_Distinguishable ==
    Nulled => probe.out.signal_strength # SnrInvalid

Fields == {"team_callsign", "signal_strength", "wind_direction_deg",
           "battery_level_percent"}

\* the fields whose value the error section changed
Changed(f, g) == {x \in Fields : f[x] # g[x]}

\* the fields the four draws of random.random() decided to corrupt
Decided(rnd) ==
    {x \in Fields :
        \/ x = "team_callsign" /\ rnd.u1 < 10
        \/ x = "signal_strength" /\ rnd.u2 < 5
        \/ x = "wind_direction_deg" /\ rnd.u3 < 5
        \/ x = "battery_level_percent" /\ rnd.u4 < 5}

Messy(t) == script = "batch_2" \/ (script = "batch_1" /\ ~Stormy(t))

\* C15: outside the storm window each of the four fields has a draw of its
\* own: before the error section runs on a clean report every one of the 16
\* sets of fields can be the set it corrupts, and after it a field whose draw
\* decided against corruption has its clean value, a field whose draw decided
\* for it has a typo, nan or a placeholder token.
C15_SeparateDraws ==
    /\ (pc = "inject" /\ Messy(probe.current_time)
           /\ IsNum(probe.clean.signal_strength)) =>
          \A combo \in SUBSET Fields :
              ENABLED (InjectFaults /\ Changed(probe.clean, probe'.out) = combo)
    /\ (probe.done /\ Messy(probe.current_time)) =>
          /\ \A x \in Fields \ Decided(probe.rnd) : probe.out[x] = probe.clean[x]
          /\ "team_callsign" \in Decided(probe.rnd) =>
                 probe.out.team_callsign \in {<<"Alpha">>, <<"alfa">>, <<"bravo">>}
          /\ "signal_strength" \in Decided(probe.rnd) =>
                 probe.out.signal_strength = NaN
          /\ "wind_direction_deg" \in Decided(probe.rnd) =>
                 probe.out.wind_direction_deg \in {Str("?"), Str("N/A"), Str("")}
          /\ "battery_level_percent" \in Decided(probe.rnd) =>
                 probe.out.battery_level_percent = NaN

\* a report of batch 2 with the callsign and the battery level corrupted and
\* the two fields between them left clean
C15_Witness ==
    /\ probe.done
    /\ script = "batch_2"
    /\ Decided(probe.rnd) = {"team_callsign", "battery_level_percent"}
    /\ Changed(probe.clean, probe.out) = {"team_callsign", "battery_level_percent"}
    /\ probe.out.team_callsign = <<"bravo">>
    /\ probe.out.battery_level_percent = NaN

\* the position a record was built for
RecordPos(r) ==
    IF script = "historical" THEN <<r.team_lat, r.team_lon>>
    ELSE <<r.latitude, r.longitude>>

\* C16: a lookup for a point outside the raster's extent, or in a part of the
\* raster that cannot be read, fails instead of returning a number, and no
\* report is built for such a position.
C16_LookupFails ==
    /\ \A j \in 1 .. Len(records) :
          RecordPos(records[j]) \in Extent(dem) \ Unreadable(dem)
    /\ (call.made /\ \E j \in Samples :
                        LosCell(call.tx, call.rx, j) \notin Extent(call.dem_path))
           => call.raised

\* C17: every call of compute_rss a generator script makes goes from the
\* beacon to a placed team, which the sampler keeps at least
\* min_dist_to_beacon_m > 0 away: the distance is positive and the path loss is
\* never taken at distance 0 (the raw signal is a finite number).
C17_PositiveDistance ==
    call.made =>
        /\ call.tx = Beacon(script)
        /\ \E j \in 1 .. Len(team_coords) : call.rx = team_coords[j]
        /\ call.locals.distance = geodesic(call.tx, call.rx)
        /\ min_dist_to_beacon_cm(script) > 0
        /\ call.locals.distance * 100 >= min_dist_to_beacon_cm(script)
        /\ call.locals.distance > 0
        /\ IsNum(call.locals.raw)

\* batch 2 calls compute_rss for a team one cell (1000 m) from the beacon
C17_Witness ==
    /\ script = "batch_2"
    /\ call.made
    /\ ~call.raised
    /\ call.locals.distance = 1000
    /\ IsNum(call.locals.raw)

\* the callsign with number k < 1000: the prefix and three decimal digits
Numbered(k) ==
    <<IF script = "batch_2" THEN "GRID" ELSE "TEAM",
      k \div 100, (k \div 10) % 10, k % 10>>

\* C18: the k-th accepted position has the callsign numbered k, whatever was
\* rejected before it, so the callsigns of a batch are pairwise distinct; the
\* k-th report is built from the k-th position, has report_id offset + k - 1
\* and, unless the error section put a typo in its place, the k-th callsign.
C18_Callsigns ==
    /\ [](/\ Len(team_callsigns) = Len(team_coords)
          /\ \A k \in 1 .. Len(team_callsigns) : team_callsigns[k] = Numbered(k)
          /\ \A j, k \in 1 .. Len(team_callsigns) :
                 j # k => team_callsigns[j] # team_callsigns[k]
          /\ \A k \in 1 .. Len(records) :
                 /\ records[k].report_id = (IF script = "batch_2" THEN 201 ELSE 1) + k - 1
                 /\ RecordPos(records[k]) = team_coords[k]
                 /\ \/ records[k].team_callsign = Numbered(k)
                    \/ /\ script # "historical"
                       /\ records[k].team_callsign
                              \in {<<"Alpha">>, <<"alfa">>, <<"bravo">>})
    /\ [][(attempts' # attempts /\ team_coords' = team_coords) =>
              team_callsigns' = team_callsigns]_vars

\* two teams placed in three attempts: the second one is numbered 2, not 3
C18_Witness ==
    /\ pc = "done"
    /\ script = "batch_2"
    /\ attempts = 3
    /\ team_callsigns = <<<<"GRID", 0, 0, 1>>, <<"GRID", 0, 0, 2>>>>
    /\ records[2].team_callsign = <<"GRID", 0, 0, 2>>
    /\ records[2].report_id = 202

====
